---- MODULE Spec2Model ----
(***************************************************************************)
(* A model of the WardenAPI client (client.ts): the constructor, the       *)
(* request pipeline makeRequest with its retry loop, and the lookup        *)
(* methods built on it.  One client and one call at a time; every await    *)
(* of makeRequest (fetch, delay) is a step of the model.                   *)
(*                                                                         *)
(* JavaScript values.  An optional value is a sequence of length at most   *)
(* one: undefined is <<>> and a present value v is <<v>>.  A number that   *)
(* may be NaN is a record [nan, val].  Header values and the API key are   *)
(* sequences of one-character strings, so that parseInt and startsWith     *)
(* work on the characters; the other strings are TLA+ strings.             *)
(***************************************************************************)
EXTENDS Integers, Sequences, FiniteSets, TLC

VARIABLES
    cfgIn,        \* the WardenConfig handed to the constructor
    client,       \* "new" | "ready" | "failed": the constructor's progress
    ctorError,    \* the message of the Error the constructor threw, if any
    config,       \* this.config, set by the constructor
    pc,           \* "idle" | "fetch" | "delay" | "done": the call's position
    op,           \* the public operation in progress and its options
    attempt,      \* the loop variable of makeRequest
    lastError,    \* makeRequest's lastError
    abortAt,      \* when the call's AbortSignal.timeout fires (ms since the call)
    elapsed,      \* ms since the call started
    attemptStart, \* when the current attempt's fetch was issued
    lastAttempt,  \* how the latest attempt ended, and the response it received
    pendingDelay, \* the argument of the delay() the call is waiting in
    sleeps,       \* the arguments of every delay() of the call, in order
    requests,     \* the requests handed to fetch by the call, in order
    attempts,     \* how each attempt of the call ended, in order
    mrResult,     \* how makeRequest ended
    opResult,     \* how the public operation ended
    other         \* the locals of a second call on the client, suspended at an await

vars == <<cfgIn, client, ctorError, config, pc, op, attempt, lastError, abortAt,
          elapsed, attemptStart, lastAttempt, pendingDelay, sleeps, requests,
          attempts, mrResult, opResult, other>>

callVars == <<pc, op, attempt, lastError, abortAt, elapsed, attemptStart,
              lastAttempt, pendingDelay, sleeps, requests, attempts, mrResult,
              opResult>>

----------------------------------------------------------------------------
(* Bounds of the model. *)

\* retries handed to the constructor range over 0..MaxRetriesIn (or are omitted)
MaxRetriesIn == 2
\* the timeout (ms) handed to the constructor when it is not omitted
ShortTimeout == 3000

----------------------------------------------------------------------------
(* JavaScript values. *)

undefined == <<>>
Some(v) == <<v>>
IsDefined(o) == o # undefined
Get(o) == o[1]

Num(n) == [nan |-> FALSE, val |-> n]
NaN == [nan |-> TRUE, val |-> 0]
\* x * k for a number x that may be NaN
Times(x, k) == IF x.nan THEN NaN ELSE Num(x.val * k)

\* the truth value JavaScript gives an optional string of characters
TruthyChars(o) == IsDefined(o) /\ Get(o) # <<>>
\* the truth value JavaScript gives an optional string
TruthyStr(o) == IsDefined(o) /\ Get(o) # ""
\* the truth value JavaScript gives an optional integer
TruthyInt(o) == IsDefined(o) /\ Get(o) # 0

Digits == <<"0", "1", "2", "3", "4", "5", "6", "7", "8", "9">>
IsDigit(c) == \E i \in 1..10 : Digits[i] = c
DigitVal(c) == (CHOOSE i \in 1..10 : Digits[i] = c) - 1

RECURSIVE ParseDigits(_, _)
\* the value of the longest prefix of digits of s, continuing from acc
ParseDigits(s, acc) ==
    IF s = <<>> \/ ~IsDigit(Head(s)) THEN acc
    ELSE ParseDigits(Tail(s), acc * 10 + DigitVal(Head(s)))

\* parseInt on a string of digits and letters: the leading digits, NaN if none
parseInt(s) ==
    IF s = <<>> \/ ~IsDigit(Head(s)) THEN NaN ELSE Num(ParseDigits(s, 0))

\* String.prototype.startsWith
startsWith(s, p) == Len(s) >= Len(p) /\ SubSeq(s, 1, Len(p)) = p

----------------------------------------------------------------------------
(* The constructor. *)

DefaultBaseUrl == "https://api.iitranq.co.uk/api/v1"
DefaultTimeout == 10000
DefaultRetries == 3

KeyPrefix == <<"w", "d", "_">>

ApiKeys ==
    {undefined, Some(<<>>), Some(<<"k", "e", "y">>), Some(<<"k", "w", "d", "_">>),
     Some(<<"w", "d", "_", "k">>)}
BaseUrls == {undefined, Some("http://localhost/api")}
Timeouts == {undefined, Some(ShortTimeout)}
Retries == {undefined} \cup {Some(n) : n \in 0..MaxRetriesIn}

\* every combination of key, timeout and retries with the base URL omitted, and
\* the configurations that override the base URL alone
WardenConfig ==
    [apiKey : ApiKeys, baseUrl : {undefined}, timeout : Timeouts, retries : Retries]
    \cup [apiKey : ApiKeys, baseUrl : BaseUrls, timeout : {undefined}, retries : {undefined}]

NoConfig == [apiKey |-> <<>>, baseUrl |-> "", timeout |-> 0, retries |-> 0]

\* a constructor that falls back to no retries when retries is omitted
RequiredConfigNoRetryDefault(c) ==
    [apiKey  |-> Get(c.apiKey),
     baseUrl |-> IF TruthyStr(c.baseUrl) THEN Get(c.baseUrl) ELSE DefaultBaseUrl,
     timeout |-> IF TruthyInt(c.timeout) THEN Get(c.timeout) ELSE DefaultTimeout,
     retries |-> IF TruthyInt(c.retries) THEN Get(c.retries) ELSE 0]

\* this.config as the constructor builds it from a WardenConfig c
RequiredConfig(c) ==
    [apiKey  |-> Get(c.apiKey),
     baseUrl |-> IF TruthyStr(c.baseUrl) THEN Get(c.baseUrl) ELSE DefaultBaseUrl,
     timeout |-> IF TruthyInt(c.timeout) THEN Get(c.timeout) ELSE DefaultTimeout,
     retries |-> IF TruthyInt(c.retries) THEN Get(c.retries) ELSE DefaultRetries]

----------------------------------------------------------------------------
(* Responses: a status, the four headers the client reads, and a body text. *)

Statuses == {200, 404, 429, 500}

NoRateHeaders == [limit |-> undefined, remaining |-> undefined, reset |-> undefined]
RateHeaders ==
    { NoRateHeaders,
      [limit |-> Some(<<"9">>), remaining |-> Some(<<"4">>), reset |-> Some(<<"7", "0">>)],
      [limit |-> Some(<<"9">>), remaining |-> Some(<<"4">>), reset |-> undefined],
      [limit |-> Some(<<"9">>), remaining |-> Some(<<"a">>), reset |-> Some(<<"7", "0">>)] }
RetryAfterHeaders == {undefined, Some(<<"2">>), Some(<<"a">>)}

BodyTexts ==
    {"<html>", "{}", "{id:'7'}", "{id:''}", "{error:''}", "{error:'quota',id:'7'}",
     "{id:'7',rateLimit:{limit:1,remaining:0,reset:5}}"}

Response(st, rh, ra, b) ==
    [status |-> st,
     headers |-> [limit |-> rh.limit, remaining |-> rh.remaining, reset |-> rh.reset,
                  retryAfter |-> ra],
     body |-> b]

FullRateHeaders ==
    [limit |-> Some(<<"9">>), remaining |-> Some(<<"4">>), reset |-> Some(<<"7", "0">>)]

\* every status with every value of the rate-limit headers, of Retry-After and of
\* the body, each varied around a response with all rate-limit headers, no
\* Retry-After and the body {id:'7'}
Responses ==
    { Response(st, rh, undefined, "{id:'7'}") : st \in Statuses, rh \in RateHeaders }
    \cup { Response(st, FullRateHeaders, ra, "{id:'7'}") :
              st \in Statuses, ra \in RetryAfterHeaders }
    \cup { Response(st, FullRateHeaders, undefined, b) : st \in Statuses, b \in BodyTexts }

\* Response.ok
ok(response) == response.status \in 200..299

\* the message makeRequest builds from status and statusText
HttpMessage(status) ==
    CASE status = 404 -> "HTTP 404: Not Found"
      [] status = 429 -> "HTTP 429: Too Many Requests"
      [] status = 500 -> "HTTP 500: Internal Server Error"
      [] OTHER -> "HTTP 200: OK"

null == [t |-> "null"]
JObject(error, id, rateLimit) ==
    [t |-> "object", error |-> error, id |-> id, rateLimit |-> rateLimit]

\* the rateLimit field of the one body text that has it
BodyRateLimit ==
    [limit |-> Num(1), remaining |-> Num(0), reset |-> Num(5), retryAfter |-> undefined]

\* JSON.parse on the body texts of the model: whether it succeeds, and its value
JsonDecodes(text) == text # "<html>"
JsonValue(text) ==
    CASE text = "{}" -> JObject(undefined, undefined, undefined)
      [] text = "{id:'7'}" -> JObject(undefined, Some("7"), undefined)
      [] text = "{id:''}" -> JObject(undefined, Some(""), undefined)
      [] text = "{error:''}" -> JObject(Some(""), undefined, undefined)
      [] text = "{id:'7',rateLimit:{limit:1,remaining:0,reset:5}}" ->
           JObject(undefined, Some("7"), Some(BodyRateLimit))
      [] OTHER -> JObject(Some("quota"), Some("7"), undefined)

\* a variant that yields an empty object when decoding throws
safeJsonParseEmptyObject(response) ==
    IF JsonDecodes(response.body) THEN JsonValue(response.body)
    ELSE JObject(undefined, undefined, undefined)

\* safeJsonParse: the decoded body, null when decoding throws
safeJsonParse(response) ==
    IF JsonDecodes(response.body) THEN JsonValue(response.body) ELSE null

\* extractRateLimit
extractRateLimit(response) ==
    LET h == response.headers IN
    IF TruthyChars(h.limit) /\ TruthyChars(h.remaining) /\ TruthyChars(h.reset)
    THEN Some([limit |-> parseInt(Get(h.limit)),
               remaining |-> parseInt(Get(h.remaining)),
               reset |-> parseInt(Get(h.reset)),
               retryAfter |-> IF TruthyChars(h.retryAfter)
                              THEN Some(parseInt(Get(h.retryAfter))) ELSE undefined])
    ELSE undefined

----------------------------------------------------------------------------
(* Errors and results. *)

\* a variant that drops the rate-limit info
WardenAPIErrorWithoutRateLimit(message, statusCode, responseData, rateLimit) ==
    [name |-> "WardenAPIError", message |-> message, statusCode |-> Some(statusCode),
     responseData |-> Some(responseData), rateLimit |-> undefined]

\* new WardenAPIError(message, statusCode, responseData, rateLimit)
WardenAPIError(message, statusCode, responseData, rateLimit) ==
    [name |-> "WardenAPIError", message |-> message, statusCode |-> Some(statusCode),
     responseData |-> Some(responseData), rateLimit |-> rateLimit]

\* an error that is not a WardenAPIError: fetch's TypeError, the signal's
\* TimeoutError, response.json()'s SyntaxError
PlainError(name) ==
    [name |-> name, message |-> name, statusCode |-> undefined,
     responseData |-> undefined, rateLimit |-> undefined]

\* what `throw lastError` throws when lastError was never assigned
ThrownUndefined == PlainError("undefined")

\* a variant that keeps the rateLimit field of the body when it has one
MergedKeepingBody(data, rateLimit) ==
    [error |-> data.error, id |-> data.id,
     rateLimit |-> IF IsDefined(data.rateLimit) THEN data.rateLimit ELSE rateLimit]

\* { ...data, rateLimit }: the rateLimit key comes last and replaces the body's
Merged(data, rateLimit) == [error |-> data.error, id |-> data.id, rateLimit |-> rateLimit]

Pending == [kind |-> "pending"]
Returned(value) == [kind |-> "return", value |-> value]
Thrown(error) == [kind |-> "throw", error |-> error]

----------------------------------------------------------------------------
(* The public operations and the request each hands to makeRequest. *)

SingleLookups == {"checkServerById", "checkServerByName", "checkUserById", "getServerInfo"}
FlagChecks == {"isServerFlagged", "isUserFlagged"}
OpNames == SingleLookups \cup FlagChecks \cup {"checkServers"}

\* the lookup a public operation runs
LookupOf(name) ==
    CASE name = "isServerFlagged" -> "getServerInfo"
      [] name = "isUserFlagged" -> "checkUserById"
      [] OTHER -> name

Endpoint(name) ==
    CASE LookupOf(name) = "getServerInfo" -> "/server/123"
      [] LookupOf(name) = "checkUserById" -> "/user"
      [] LookupOf(name) = "checkServers" -> "/servers"
      [] OTHER -> "/server"

\* the options of the call to makeRequest: no lookup method passes a timeout
Options(name) ==
    CASE LookupOf(name) = "getServerInfo" ->
           [method |-> undefined, body |-> undefined, timeout |-> undefined]
      [] LookupOf(name) = "checkServerById" ->
           [method |-> Some("POST"), body |-> Some("{data:{type:'id',id:'123'}}"), timeout |-> undefined]
      [] LookupOf(name) = "checkServerByName" ->
           [method |-> Some("POST"), body |-> Some("{data:{type:'name',name:'abc'}}"), timeout |-> undefined]
      [] LookupOf(name) = "checkUserById" ->
           [method |-> Some("POST"), body |-> Some("{data:{type:'id',id:'456'}}"), timeout |-> undefined]
      [] OTHER ->
           [method |-> Some("POST"), body |-> Some("{data:{servers:[{id:'123'}]}}"), timeout |-> undefined]

\* a variant that ignores options.method
RequestInitAlwaysGet(cfg, name) ==
    [url |-> <<cfg.baseUrl, Endpoint(name)>>,
     method |-> "GET",
     apiKey |-> cfg.apiKey,
     body |-> Options(name).body]

\* url and requestOptions (without the signal) as makeRequest builds them
RequestInit(cfg, name) ==
    [url |-> <<cfg.baseUrl, Endpoint(name)>>,
     method |-> IF TruthyStr(Options(name).method) THEN Get(Options(name).method) ELSE "GET",
     apiKey |-> cfg.apiKey,
     body |-> Options(name).body]

\* a variant that takes every WardenAPIError for a 404
IsNotFoundAnyStatus(error) == error.name = "WardenAPIError"

\* error instanceof WardenAPIError && error.statusCode === 404
IsNotFound(error) == error.name = "WardenAPIError" /\ error.statusCode = Some(404)

\* a variant that answers "Server not found" for the user lookup too
NotFoundResultServerOnly(name) ==
    [error |-> Some("Server not found"), id |-> undefined, rateLimit |-> undefined]

\* the result a single lookup returns in place of a 404
NotFoundResult(name) ==
    [error |-> Some(IF name = "checkUserById" THEN "User not found" ELSE "Server not found"),
     id |-> undefined, rateLimit |-> undefined]

\* a lookup method's try/catch around makeRequest, given how makeRequest ended
Lookup(name, mr) ==
    IF name \in SingleLookups /\ mr.kind = "throw" /\ IsNotFound(mr.error)
    THEN Returned(NotFoundResult(name))
    ELSE mr

\* a variant that does not look at the error marker
FlaggedIgnoringError(response) == TruthyStr(response.id)

\* !response.error && !!response?.id
Flagged(response) == ~TruthyStr(response.error) /\ TruthyStr(response.id)

\* how the public operation ends, given how makeRequest ended
Outcome(name, mr) ==
    LET r == Lookup(LookupOf(name), mr) IN
    IF name \in FlagChecks /\ r.kind = "return" THEN Returned(Flagged(r.value)) ELSE r

----------------------------------------------------------------------------
(* makeRequest. *)

NoAttempt == [kind |-> "none"]
IdleOp == "none"

\* a variant that ignores the Retry-After header
RetryAfterMsDefaultOnly(response) == Num(1000)

\* parseInt(response.headers.get('Retry-After') || '1') * 1000
RetryAfterMs(response) ==
    Times(parseInt(IF TruthyChars(response.headers.retryAfter)
                   THEN Get(response.headers.retryAfter) ELSE <<"1">>), 1000)

\* a variant with a linear backoff
BackoffMsLinear(n) == Num((n + 1) * 1000)

\* a variant that backs off one second whatever the attempt
BackoffMsConstant(n) == Num(1000)

\* Math.pow(2, attempt) * 1000
BackoffMs(n) == Num((2 ^ n) * 1000)

\* a variant that retries a 500 like a 429
RetryableAlso500(response, n, cfg) == response.status \in {429, 500} /\ n < cfg.retries

\* response.status === 429 && attempt < this.config.retries
Retryable429(response, n, cfg) == response.status = 429 /\ n < cfg.retries

\* a variant that retries only fetch's own failures
RethrownUnlessFetchFailed(error, n, cfg) ==
    error.name \notin {"TypeError", "TimeoutError"} \/ n = cfg.retries

\* a variant that gives up one attempt early
RethrownOneAttemptEarly(error, n, cfg) ==
    error.name = "WardenAPIError" \/ n >= cfg.retries - 1

\* error instanceof WardenAPIError || attempt === this.config.retries
Rethrown(error, n, cfg) == error.name = "WardenAPIError" \/ n = cfg.retries

\* a variant that does not count an attempt
NextAttemptStuck(n) == n

\* attempt++
NextAttempt(n) == n + 1

\* a variant whose loop stops one attempt short
LoopTestExclusive(n, cfg) == n < cfg.retries

\* attempt <= this.config.retries
LoopTest(n, cfg) == n <= cfg.retries

\* the timer setTimeout runs for a delay of ms (Node: NaN and values below 1 are 1)
TimerMs(ms) == IF ms.nan \/ ms.val < 1 THEN 1 ELSE ms.val

\* makeRequest ends: the lookup method's handler runs in the same turn
End(mr) ==
    /\ pc' = "done"
    /\ mrResult' = mr
    /\ opResult' = Outcome(op, mr)
    /\ UNCHANGED <<pendingDelay, sleeps>>

\* await this.delay(ms)
Delay(ms) ==
    /\ pc' = "delay"
    /\ pendingDelay' = ms
    /\ sleeps' = Append(sleeps, ms)
    /\ UNCHANGED <<mrResult, opResult>>

\* the catch block of the loop body
Catch(error) ==
    /\ lastError' = Some(error)
    /\ IF Rethrown(error, attempt, config)
       THEN End(Thrown(error))
       ELSE Delay(BackoffMs(attempt))

\* a variant that extracts the rate limit once, from the first response of the
\* call, before the loop
HandleRateLimitOfFirst(response) ==
    LET first == IF \E i \in 1..Len(attempts) : attempts[i].kind \notin {"network", "timeout"}
                 THEN LET i == CHOOSE i \in 1..Len(attempts) :
                                   /\ attempts[i].kind \notin {"network", "timeout"}
                                   /\ \A j \in 1..(i - 1) : attempts[j].kind \in {"network", "timeout"}
                      IN Response(response.status, attempts[i].rate, attempts[i].retryAfter,
                                  response.body)
                 ELSE response
        rateLimit == extractRateLimit(first)
    IN
    IF ~ok(response)
    THEN LET errorData == safeJsonParse(response)
             errorMessage == IF errorData # null /\ TruthyStr(errorData.error)
                             THEN Get(errorData.error) ELSE HttpMessage(response.status)
         IN IF Retryable429(response, attempt, config)
            THEN Delay(RetryAfterMs(response)) /\ UNCHANGED lastError
            ELSE Catch(WardenAPIError(errorMessage, response.status, errorData, rateLimit))
    ELSE IF JsonDecodes(response.body)
         THEN /\ End(Returned(Merged(JsonValue(response.body), rateLimit)))
              /\ UNCHANGED lastError
         ELSE Catch(PlainError("SyntaxError"))

\* the try block once fetch has resolved with a response
Handle(response) ==
    LET rateLimit == extractRateLimit(response) IN
    IF ~ok(response)
    THEN LET errorData == safeJsonParse(response)
             errorMessage == IF errorData # null /\ TruthyStr(errorData.error)
                             THEN Get(errorData.error) ELSE HttpMessage(response.status)
         IN IF Retryable429(response, attempt, config)
            THEN Delay(RetryAfterMs(response)) /\ UNCHANGED lastError
            ELSE Catch(WardenAPIError(errorMessage, response.status, errorData, rateLimit))
    ELSE IF JsonDecodes(response.body)
         THEN /\ End(Returned(Merged(JsonValue(response.body), rateLimit)))
              /\ UNCHANGED lastError
         ELSE Catch(PlainError("SyntaxError"))

\* fetch(url, requestOptions) is called
Issue ==
    /\ attemptStart' = elapsed
    /\ requests' = Append(requests, RequestInit(config, op))

\* how an attempt that received a response ended
ResponseKind(response) ==
    CASE response.status = 429 -> "429"
      [] ~ok(response) -> "error"
      [] JsonDecodes(response.body) -> "ok"
      [] OTHER -> "decode"

\* the attempt's entry in the call's history: how it ended and the Retry-After
\* and X-RateLimit headers of the response it received
Record(kind, retryAfter, rate) ==
    attempts' = Append(attempts, [kind |-> kind, retryAfter |-> retryAfter, rate |-> rate])

\* options.timeout || this.config.timeout
Timeout(cfg, name) ==
    IF TruthyInt(Options(name).timeout) THEN Get(Options(name).timeout) ELSE cfg.timeout

\* the locals of the call that is running: makeRequest keeps its state in
\* parameters, const and let bindings, none of it in fields of the client
Locals ==
    [pc |-> pc, op |-> op, attempt |-> attempt, lastError |-> lastError,
     abortAt |-> abortAt, elapsed |-> elapsed, attemptStart |-> attemptStart,
     lastAttempt |-> lastAttempt, pendingDelay |-> pendingDelay, sleeps |-> sleeps,
     requests |-> requests, attempts |-> attempts, mrResult |-> mrResult,
     opResult |-> opResult]

\* the locals of a call that has not started
IdleLocals ==
    [pc |-> "idle", op |-> IdleOp, attempt |-> 0, lastError |-> undefined,
     abortAt |-> 0, elapsed |-> 0, attemptStart |-> 0, lastAttempt |-> NoAttempt,
     pendingDelay |-> Num(0), sleeps |-> <<>>, requests |-> <<>>, attempts |-> <<>>,
     mrResult |-> Pending, opResult |-> Pending]

\* a variant that keeps the loop counter in a field of the client
ResumeSharingAttempt(saved, running) == [saved EXCEPT !.attempt = running.attempt]

\* the locals a suspended call resumes with, given those it was suspended with
\* and those of the call that ran meanwhile: let attempt, let lastError
Resume(saved, running) == saved

----------------------------------------------------------------------------
(* The state machine. *)

Init ==
    /\ cfgIn \in WardenConfig
    /\ client = "new"
    /\ ctorError = undefined
    /\ config = NoConfig
    /\ pc = "idle"
    /\ op = IdleOp
    /\ attempt = 0
    /\ lastError = undefined
    /\ abortAt = 0
    /\ elapsed = 0
    /\ attemptStart = 0
    /\ lastAttempt = NoAttempt
    /\ pendingDelay = Num(0)
    /\ sleeps = <<>>
    /\ requests = <<>>
    /\ attempts = <<>>
    /\ mrResult = Pending
    /\ opResult = Pending
    /\ other = IdleLocals

\* new WardenAPI(cfgIn)
Construct ==
    /\ client = "new"
    /\ IF ~TruthyChars(cfgIn.apiKey)
       THEN /\ client' = "failed"
            /\ ctorError' = Some("API key is required")
            /\ UNCHANGED config
       ELSE IF ~startsWith(Get(cfgIn.apiKey), KeyPrefix)
       THEN /\ client' = "failed"
            /\ ctorError' = Some("API key must start with \"wd_\"")
            /\ UNCHANGED config
       ELSE /\ client' = "ready"
            /\ config' = RequiredConfig(cfgIn)
            /\ UNCHANGED ctorError
    /\ UNCHANGED <<cfgIn, callVars, other>>

\* a public operation is called: makeRequest runs up to its first fetch
Call(name) ==
    /\ client = "ready"
    /\ pc = "idle"
    /\ pc' = "fetch"
    /\ op' = name
    /\ attempt' = 0
    /\ lastError' = undefined
    /\ elapsed' = 0
    /\ abortAt' = Timeout(config, name)
    /\ UNCHANGED <<attemptStart, lastAttempt, pendingDelay, sleeps, requests,
                   attempts, mrResult, opResult>>
    /\ UNCHANGED <<cfgIn, client, ctorError, config, other>>

\* an attempt whose fetch resolves with a response: at once, and only while the
\* call's signal has not fired
FetchResponse(response) ==
    /\ pc = "fetch"
    /\ elapsed < abortAt
    /\ Issue
    /\ UNCHANGED elapsed
    /\ lastAttempt' = [kind |-> "response", response |-> response]
    /\ Record(ResponseKind(response), response.headers.retryAfter,
              [limit |-> response.headers.limit, remaining |-> response.headers.remaining,
               reset |-> response.headers.reset])
    /\ Handle(response)
    /\ UNCHANGED <<op, attempt, abortAt>>
    /\ UNCHANGED <<cfgIn, client, ctorError, config, other>>

\* an attempt whose fetch rejects with a network error: at once, and only while
\* the call's signal has not fired
FetchNetworkError ==
    /\ pc = "fetch"
    /\ elapsed < abortAt
    /\ Issue
    /\ UNCHANGED elapsed
    /\ lastAttempt' = [kind |-> "network"]
    /\ Record("network", undefined, NoRateHeaders)
    /\ Catch(PlainError("TypeError"))
    /\ UNCHANGED <<op, attempt, abortAt>>
    /\ UNCHANGED <<cfgIn, client, ctorError, config, other>>

\* an attempt whose fetch rejects because the call's signal aborts: when the
\* signal fires, or at once when it has fired before the attempt
FetchTimeout ==
    /\ pc = "fetch"
    /\ Issue
    /\ elapsed' = IF elapsed < abortAt THEN abortAt ELSE elapsed
    /\ lastAttempt' = [kind |-> "timeout"]
    /\ Record("timeout", undefined, NoRateHeaders)
    /\ Catch(PlainError("TimeoutError"))
    /\ UNCHANGED <<op, attempt, abortAt>>
    /\ UNCHANGED <<cfgIn, client, ctorError, config, other>>

\* a variant that keeps the remaining budget in this.config.retries
DelayDoneSpendingConfig ==
    /\ pc = "delay"
    /\ elapsed' = elapsed + TimerMs(pendingDelay)
    /\ attempt' = NextAttempt(attempt)
    /\ config' = [config EXCEPT !.retries = config.retries - 1]
    /\ pc' = "fetch"
    /\ lastAttempt' = NoAttempt
    /\ UNCHANGED <<op, lastError, abortAt, attemptStart, pendingDelay, sleeps, requests,
                   attempts, mrResult, opResult>>
    /\ UNCHANGED <<cfgIn, client, ctorError, other>>

\* a variant whose retry starts the call over
DelayDoneStartingOver ==
    /\ pc = "delay"
    /\ pc' = "fetch"
    /\ attempt' = 0
    /\ elapsed' = 0
    /\ attemptStart' = 0
    /\ lastAttempt' = NoAttempt
    /\ pendingDelay' = Num(0)
    /\ sleeps' = <<>>
    /\ requests' = <<>>
    /\ attempts' = <<>>
    /\ UNCHANGED <<op, lastError, abortAt, mrResult, opResult>>
    /\ UNCHANGED <<cfgIn, client, ctorError, config, other>>

\* the delay ends: attempt++ and the loop test, then line 87 if the loop is over
DelayDone ==
    /\ pc = "delay"
    /\ elapsed' = elapsed + TimerMs(pendingDelay)
    /\ attempt' = NextAttempt(attempt)
    /\ IF LoopTest(attempt', config)
       THEN /\ pc' = "fetch"
            /\ UNCHANGED <<mrResult, opResult>>
       ELSE /\ pc' = "done"
            /\ mrResult' = Thrown(IF IsDefined(lastError) THEN Get(lastError)
                                  ELSE ThrownUndefined)
            /\ opResult' = Outcome(op, mrResult')
    /\ lastAttempt' = NoAttempt
    /\ UNCHANGED <<op, lastError, abortAt, attemptStart, pendingDelay, sleeps, requests,
                   attempts>>
    /\ UNCHANGED <<cfgIn, client, ctorError, config, other>>

\* the caller has the outcome; the client is ready for its next call
Finish ==
    /\ pc = "done"
    /\ pc' = "idle"
    /\ op' = IdleOp
    /\ attempt' = 0
    /\ lastError' = undefined
    /\ abortAt' = 0
    /\ elapsed' = 0
    /\ attemptStart' = 0
    /\ lastAttempt' = NoAttempt
    /\ pendingDelay' = Num(0)
    /\ sleeps' = <<>>
    /\ requests' = <<>>
    /\ attempts' = <<>>
    /\ mrResult' = Pending
    /\ opResult' = Pending
    /\ UNCHANGED <<cfgIn, client, ctorError, config, other>>

Next ==
    \/ Construct
    \/ \E name \in OpNames : Call(name)
    \/ \E response \in Responses : FetchResponse(response)
    \/ FetchNetworkError
    \/ FetchTimeout
    \/ DelayDone
    \/ Finish

Spec == Init /\ [][Next]_vars

----------------------------------------------------------------------------
(* Two calls on one client.  The running call is suspended at an await and the
   other call resumes; the client's config is the only state they share. *)

\* clients built with a valid key and one to MaxRetriesIn retries
ConcConfigs ==
    [apiKey : {Some(<<"w", "d", "_", "k">>)}, baseUrl : {undefined},
     timeout : {undefined}, retries : {Some(n) : n \in 1..MaxRetriesIn}]

ConcOps == {"checkServerById", "checkServers"}

\* a success, a 429 with Retry-After, a 404 and a success whose body is not JSON
ConcResponses ==
    {Response(200, FullRateHeaders, undefined, "{id:'7'}"),
     Response(429, FullRateHeaders, Some(<<"2">>), "{id:'7'}"),
     Response(404, FullRateHeaders, undefined, "{id:'7'}"),
     Response(200, FullRateHeaders, undefined, "<html>")}

\* the running call is suspended where it awaits the fetch or the sleep (or has
\* not started, or has ended) and the other call runs on; the await of the body
\* lies inside the step that handles the response, which touches locals only
Switch ==
    /\ client = "ready"
    /\ other' = Locals
    /\ LET r == Resume(other, Locals) IN
         /\ pc' = r.pc
         /\ op' = r.op
         /\ attempt' = r.attempt
         /\ lastError' = r.lastError
         /\ abortAt' = r.abortAt
         /\ elapsed' = r.elapsed
         /\ attemptStart' = r.attemptStart
         /\ lastAttempt' = r.lastAttempt
         /\ pendingDelay' = r.pendingDelay
         /\ sleeps' = r.sleeps
         /\ requests' = r.requests
         /\ attempts' = r.attempts
         /\ mrResult' = r.mrResult
         /\ opResult' = r.opResult
    /\ UNCHANGED <<cfgIn, client, ctorError, config>>

ConcInit == Init /\ cfgIn \in ConcConfigs

ConcNext ==
    \/ Construct
    \/ \E name \in ConcOps : Call(name)
    \/ \E response \in ConcResponses : FetchResponse(response)
    \/ FetchNetworkError
    \/ FetchTimeout
    \/ DelayDone
    \/ Switch

SpecConc == ConcInit /\ [][ConcNext]_vars

----------------------------------------------------------------------------
(* Calls whose awaited promises settle: every client configuration and every
   operation, with one response for each way an attempt can end. *)

\* the fetch of the current attempt ends: in a response, a network error or the
\* abort of the call's signal
AttemptEnds ==
    \/ \E response \in ConcResponses : FetchResponse(response)
    \/ FetchNetworkError
    \/ FetchTimeout

FairNext ==
    \/ Construct
    \/ \E name \in OpNames : Call(name)
    \/ AttemptEnds
    \/ DelayDone
    \/ Finish

\* every fetch settles and every setTimeout fires
FairSpec == Init /\ [][FairNext]_vars /\ WF_vars(AttemptEnds) /\ WF_vars(DelayDone)

----------------------------------------------------------------------------
(* Properties. *)

Done == pc = "done"
LastResponse == lastAttempt.response
GotResponse == lastAttempt.kind = "response"
TransportKinds == {"network", "timeout"}

\* C1: one call hands at most retries+1 requests to fetch, and every attempt,
\* whether it follows a 429 or a transport failure, advances the one counter:
\* the number of requests is attempt while a fetch is due and attempt+1 after it.
C1_AtMostRetriesPlusOneRequests ==
    /\ Len(requests) <= config.retries + 1
    /\ pc = "fetch" => Len(requests) = attempt
    /\ pc \in {"delay", "done"} => Len(requests) = attempt + 1

\* a call that spent its whole budget: a 429 with Retry-After 2 on attempt 0, a
\* transport failure on attempt 1 and a network error on the last attempt
C1_Witness ==
    /\ Done
    /\ config.retries >= 2
    /\ Len(requests) = config.retries + 1
    /\ attempts[1].kind = "429"
    /\ attempts[2].kind \in TransportKinds
    /\ mrResult = Thrown(PlainError("TypeError"))

\* C2: a client constructed with retries N >= 0 has a retry budget of exactly N,
\* and with N = 0 a call makes one attempt and never sleeps.
C2_RetryOverrideIsBudget ==
    /\ (client = "ready" /\ IsDefined(cfgIn.retries)) => config.retries = Get(cfgIn.retries)
    /\ (Done /\ cfgIn.retries = Some(0)) => (Len(requests) = 1 /\ sleeps = <<>>)

\* C3: an attempt ends as a timeout only when the call's timeout has elapsed
\* since that attempt's request was issued.
C3_TimeoutCountsFromAttempt ==
    lastAttempt.kind = "timeout" => elapsed - attemptStart >= Timeout(config, op)

\* C4: when all retries+1 attempts end in a transport failure, the call throws
\* the last attempt's transport error, not a WardenAPIError, and has slept
\* exactly 1 s, 2 s, ..., 2^(retries-1) s: once after each attempt but the last.
C4_TransportFailuresBackOffExponentially ==
    (Done /\ Len(attempts) = config.retries + 1
          /\ \A i \in 1..Len(attempts) : attempts[i].kind \in TransportKinds)
    => /\ mrResult.kind = "throw"
       /\ mrResult.error =
            PlainError(IF lastAttempt.kind = "network" THEN "TypeError" ELSE "TimeoutError")
       /\ mrResult.error.name # "WardenAPIError"
       /\ Len(sleeps) = config.retries
       /\ \A i \in 1..Len(sleeps) : sleeps[i] = Num((2 ^ (i - 1)) * 1000)

\* four transport failures in a row, ending the call
C4_Witness ==
    /\ Done
    /\ Len(attempts) = 4
    /\ \A i \in 1..Len(attempts) : attempts[i].kind \in TransportKinds
    /\ sleeps = <<Num(1000), Num(2000), Num(4000)>>

\* the Retry-After header is absent or a string of digits
WellFormedRetryAfter(h) ==
    ~IsDefined(h) \/ (Get(h) # <<>> /\ \A i \in 1..Len(Get(h)) : IsDigit(Get(h)[i]))

FatalResponse ==
    /\ GotResponse
    /\ LastResponse.status \notin 200..299
    /\ ~(LastResponse.status = 429 /\ attempt < config.retries)

\* C6: a non-2xx response that is not a retryable 429 ends the call at once with
\* a WardenAPIError carrying the response's status, decoded body (null when it
\* does not decode) and rate-limit info; the attempt is the call's last request
\* and no sleep follows it.
C6_FatalResponseEndsCall ==
    FatalResponse
    => /\ Done
       /\ mrResult.kind = "throw"
       /\ mrResult.error.name = "WardenAPIError"
       /\ mrResult.error.statusCode = Some(LastResponse.status)
       /\ mrResult.error.responseData =
            Some(IF JsonDecodes(LastResponse.body) THEN JsonValue(LastResponse.body)
                 ELSE null)
       /\ mrResult.error.rateLimit = extractRateLimit(LastResponse)
       /\ Len(requests) = attempt + 1
       /\ Len(sleeps) = attempt

\* a 500 on the first attempt of a call with three retries left
C6_Witness ==
    /\ Done
    /\ GotResponse
    /\ LastResponse.status = 500
    /\ attempt = 0
    /\ config.retries = 3
    /\ mrResult.kind = "throw"

\* the response of the latest attempt is 2xx with a body that is not JSON
UndecodableSuccess ==
    /\ GotResponse
    /\ LastResponse.status \in 200..299
    /\ ~JsonDecodes(LastResponse.body)

\* C7 as stated: a 2xx response whose body is not JSON ends the call with the
\* decoding exception on whichever attempt it happens, with no sleep after it.
C7_DecodeFailureEndsCall ==
    UndecodableSuccess
    => /\ Done
       /\ mrResult = Thrown(PlainError("SyntaxError"))
       /\ Len(sleeps) = attempt

\* C7 amended: a 2xx response whose body is not JSON is handled like a transport
\* failure: below the budget the call sleeps 2^attempt s and tries again; on
\* attempt retries it ends with the decoding exception, not a WardenAPIError.
C7_DecodeFailureIsRetried ==
    UndecodableSuccess
    => /\ lastError = Some(PlainError("SyntaxError"))
       /\ attempt < config.retries
          => (pc = "delay" /\ pendingDelay = Num((2 ^ attempt) * 1000)
                           /\ Len(sleeps) = attempt + 1 /\ mrResult = Pending)
       /\ attempt = config.retries
          => (Done /\ mrResult = Thrown(PlainError("SyntaxError"))
                   /\ Len(sleeps) = attempt)

\* a call waiting in the backoff after an undecodable 200 on its first attempt
C7_Witness ==
    /\ UndecodableSuccess
    /\ pc = "delay"
    /\ attempt = 0
    /\ sleeps = <<Num(1000)>>

\* the call ended and its last attempt received a 404
EndedWith404 == Done /\ GotResponse /\ LastResponse.status = 404

\* C8: when the call ends with a 404, each of the four single lookups returns a
\* result with the error "Server not found" ("User not found" for
\* checkUserById) and nothing else, and checkServers throws the WardenAPIError
\* with statusCode 404.
C8_NotFoundIsSoftForSingleLookups ==
    EndedWith404
    => /\ op \in SingleLookups
          => /\ opResult.kind = "return"
             /\ opResult.value.error =
                  Some(IF op = "checkUserById" THEN "User not found" ELSE "Server not found")
             /\ opResult.value.id = undefined
       /\ op = "checkServers"
          => /\ opResult.kind = "throw"
             /\ opResult.error.name = "WardenAPIError"
             /\ opResult.error.statusCode = Some(404)

\* checkUserById ends with a 404 after an earlier attempt was retried
C8_Witness ==
    /\ EndedWith404
    /\ op = "checkUserById"
    /\ Len(attempts) >= 2
    /\ opResult.kind = "return"

\* C9: a single lookup whose call fails with anything but a WardenAPIError of
\* status 404 throws that same error, unchanged; only a 404 becomes a result.
C9_OtherFailuresPropagateUnchanged ==
    (Done /\ op \in SingleLookups /\ mrResult.kind = "throw")
    => IF mrResult.error.name = "WardenAPIError" /\ mrResult.error.statusCode = Some(404)
       THEN opResult.kind = "return"
       ELSE opResult = mrResult

\* getServerInfo throws the WardenAPIError of a 500
C9_Witness ==
    /\ Done
    /\ op = "getServerInfo"
    /\ GotResponse
    /\ LastResponse.status = 500
    /\ opResult.kind = "throw"
    /\ opResult.error.statusCode = Some(500)

\* the result of the lookup under a flag check: the decoded body of a 2xx
\* response, or the not-found result of a 404
UnderlyingResult ==
    IF LastResponse.status = 404
    THEN [error |-> Some("not found"), id |-> undefined]
    ELSE [error |-> JsonValue(LastResponse.body).error, id |-> JsonValue(LastResponse.body).id]

\* C10: whenever the lookup under isServerFlagged or isUserFlagged returns a
\* result (a decoded 2xx body, or the not-found result of a 404), the flag check
\* returns true exactly when that result has no error and a nonempty id.
C10_FlaggedIffNoErrorAndId ==
    (Done /\ op \in FlagChecks /\ GotResponse
          /\ (LastResponse.status = 404
              \/ (LastResponse.status \in 200..299 /\ JsonDecodes(LastResponse.body))))
    => /\ opResult.kind = "return"
       /\ opResult.value = (/\ UnderlyingResult.error = undefined
                            /\ UnderlyingResult.id \notin {undefined, Some("")})

\* isServerFlagged answers true for a 200 whose body has an id and no error
C10_Witness ==
    /\ Done
    /\ op = "isServerFlagged"
    /\ GotResponse
    /\ LastResponse.status = 200
    /\ opResult = Returned(TRUE)

\* every attempt of the call that ended received a 429, the last one on attempt
\* index retries
RateLimitedThroughout ==
    /\ Done
    /\ Len(attempts) = config.retries + 1
    /\ \A i \in 1..Len(attempts) : attempts[i].kind = "429"

\* C11: a call that receives a 429 on every attempt up to attempt index retries
\* throws a WardenAPIError with statusCode 429 whose rateLimit is the info
\* extracted from the last 429 response.
C11_ExhaustedRateLimitCarriesRateLimit ==
    RateLimitedThroughout
    => /\ mrResult.kind = "throw"
       /\ mrResult.error.name = "WardenAPIError"
       /\ mrResult.error.statusCode = Some(429)
       /\ mrResult.error.rateLimit = extractRateLimit(LastResponse)

\* the last of the 429s has all three rate-limit headers, and the error has them
C11_Witness ==
    /\ RateLimitedThroughout
    /\ config.retries >= 1
    /\ LastResponse.headers.reset = Some(<<"7", "0">>)
    /\ IsDefined(mrResult.error.rateLimit)
    /\ Get(mrResult.error.rateLimit).reset = Num(70)

\* the call returned the result of a 2xx response
ReturnedSuccess ==
    /\ Done
    /\ GotResponse
    /\ LastResponse.status \in 200..299
    /\ mrResult.kind = "return"

\* the three X-RateLimit headers are all present
AllRateHeadersPresent(h) ==
    IsDefined(h.limit) /\ IsDefined(h.remaining) /\ IsDefined(h.reset)

\* C12 as stated: the result of a 2xx response has every field of the decoded
\* body with its decoded value, and a rateLimit equal to the info extracted
\* from the headers, or no rateLimit when the three headers are not all present.
C12_ResultHasEveryBodyField ==
    ReturnedSuccess
    => LET body == JsonValue(LastResponse.body)
           value == mrResult.value
       IN /\ IsDefined(body.error) => value.error = body.error
          /\ IsDefined(body.id) => value.id = body.id
          /\ IsDefined(body.rateLimit) => value.rateLimit = body.rateLimit
          /\ AllRateHeadersPresent(LastResponse.headers)
             => value.rateLimit = extractRateLimit(LastResponse)
          /\ ~AllRateHeadersPresent(LastResponse.headers) => value.rateLimit = undefined

\* C12 amended: the result of a 2xx response has every field of the decoded body
\* other than rateLimit with its decoded value; its rateLimit is the info
\* extracted from the headers, also when the body has a rateLimit field of its
\* own, and is undefined when the three headers are not all present.
C12_ResultIsBodyWithRateLimitReplaced ==
    ReturnedSuccess
    => LET body == JsonValue(LastResponse.body)
           value == mrResult.value
       IN /\ value.error = body.error
          /\ value.id = body.id
          /\ value.rateLimit = extractRateLimit(LastResponse)
          /\ ~AllRateHeadersPresent(LastResponse.headers) => value.rateLimit = undefined

\* a 200 whose body has a rateLimit field: the result has the headers' instead
C12_Witness ==
    /\ ReturnedSuccess
    /\ JsonValue(LastResponse.body).rateLimit = Some(BodyRateLimit)
    /\ IsDefined(mrResult.value.rateLimit)
    /\ Get(mrResult.value.rateLimit).limit = Num(9)

\* a header that is present and a nonempty string of digits
WellFormedInteger(h) ==
    IsDefined(h) /\ Get(h) # <<>> /\ \A i \in 1..Len(Get(h)) : IsDigit(Get(h)[i])

\* the rate-limit info the ended call attached to its result or WardenAPIError
OutcomeRateLimit ==
    IF mrResult.kind = "return" THEN mrResult.value.rateLimit ELSE mrResult.error.rateLimit

\* the call ended with the result or the WardenAPIError of its last response
EndedWithResponse ==
    /\ Done
    /\ GotResponse
    /\ mrResult.kind = "return" \/ mrResult.error.name = "WardenAPIError"

\* C13: a response yields a RateLimitInfo exactly when X-RateLimit-Limit,
\* X-RateLimit-Remaining and X-RateLimit-Reset are all present and well-formed
\* integers; a missing or malformed header yields none.
C13_RateLimitNeedsWellFormedHeaders ==
    EndedWithResponse
    => (IsDefined(OutcomeRateLimit)
        <=> /\ WellFormedInteger(LastResponse.headers.limit)
            /\ WellFormedInteger(LastResponse.headers.remaining)
            /\ WellFormedInteger(LastResponse.headers.reset))

\* the argument of the delay the call waits in after a retried 429
WaitingAfter429 ==
    /\ pc = "delay"
    /\ GotResponse
    /\ LastResponse.status = 429

\* C14: after a 429 below the budget the call sleeps the Retry-After value in
\* seconds times 1000 ms, and exactly 1000 ms when the header is absent or is
\* not a number.
C14_RetryAfterDefaultsToOneSecond ==
    WaitingAfter429
    => TimerMs(pendingDelay) =
         IF WellFormedInteger(LastResponse.headers.retryAfter)
         THEN ParseDigits(Get(LastResponse.headers.retryAfter), 0) * 1000
         ELSE 1000

\* the key the caller passed starts with "wd_"
KeyHasWardenPrefix ==
    /\ Len(Get(cfgIn.apiKey)) >= 3
    /\ Get(cfgIn.apiKey)[1] = "w"
    /\ Get(cfgIn.apiKey)[2] = "d"
    /\ Get(cfgIn.apiKey)[3] = "_"

\* C15: construction fails with an error when apiKey is missing or empty, fails
\* with an error when the key does not start with "wd_", and otherwise succeeds
\* with baseUrl https://api.iitranq.co.uk/api/v1, timeout 10000 ms and 3 retries
\* for each of those fields that was omitted.
C15_ConstructorValidatesKeyAndFillsDefaults ==
    client # "new"
    => IF cfgIn.apiKey = undefined \/ Get(cfgIn.apiKey) = <<>>
       THEN client = "failed" /\ IsDefined(ctorError)
       ELSE IF ~KeyHasWardenPrefix
       THEN client = "failed" /\ IsDefined(ctorError)
       ELSE /\ client = "ready"
            /\ ctorError = undefined
            /\ config.apiKey = Get(cfgIn.apiKey)
            /\ cfgIn.baseUrl = undefined
               => config.baseUrl = "https://api.iitranq.co.uk/api/v1"
            /\ cfgIn.timeout = undefined => config.timeout = 10000
            /\ cfgIn.retries = undefined => config.retries = 3

C15_Witness ==
    /\ client = "ready"
    /\ cfgIn.baseUrl = undefined
    /\ cfgIn.timeout = Some(ShortTimeout)
    /\ cfgIn.retries = undefined
    /\ config.baseUrl = DefaultBaseUrl
    /\ config.timeout = ShortTimeout
    /\ config.retries = 3

\* C16: the not-found result of a single lookup after a 404 carries the
\* rateLimit info extracted from that 404 response's headers.
C16_NotFoundResultCarriesRateLimit ==
    EndedWith404 /\ op \in SingleLookups /\ opResult.kind = "return"
    => opResult.value.rateLimit = extractRateLimit(LastResponse)

\* C18: after construction no public operation, whatever its outcome, changes
\* the client's apiKey, baseUrl, timeout or retries.
C18_OperationsLeaveConfigAlone ==
    [][client = "ready"
       => /\ config'.apiKey = config.apiKey
          /\ config'.baseUrl = config.baseUrl
          /\ config'.timeout = config.timeout
          /\ config'.retries = config.retries]_vars

\* a call that retried twice and ended, on a client built with retries 2
C18_Witness ==
    /\ Done
    /\ cfgIn.retries = Some(2)
    /\ Len(attempts) = 3
    /\ config = RequiredConfig(cfgIn)

\* a call that ended by throwing an error that is not a WardenAPIError
ThrewOtherError ==
    Done /\ mrResult.kind = "throw" /\ mrResult.error.name # "WardenAPIError"

\* the last attempt was a transport failure or a timeout while attempts remain
TransportFailureBelowBudget ==
    lastAttempt.kind \in TransportKinds /\ attempt < config.retries

\* C19: a call throws an error that is not a WardenAPIError only on attempt
\* index retries; a transport failure or timeout while attempts remain is not
\* surfaced but is followed by a backoff sleep and then another attempt.
C19_OtherErrorsSurfaceOnlyOnLastAttempt ==
    /\ [](ThrewOtherError => attempt = config.retries)
    /\ [](TransportFailureBelowBudget
          => pc = "delay" /\ mrResult = Pending /\ opResult = Pending
             /\ sleeps # <<>> /\ sleeps[Len(sleeps)] = pendingDelay)
    /\ [][TransportFailureBelowBudget
          => pc' = "fetch" /\ attempt' = attempt + 1 /\ mrResult' = Pending]_vars

\* a network error on attempt 0 was slept over and the call threw the timeout
\* of attempt 1
C19_Witness ==
    /\ ThrewOtherError
    /\ config.retries = 1
    /\ Len(attempts) = 2
    /\ attempts[1].kind = "network"
    /\ mrResult.error.name = "TimeoutError"
    /\ sleeps = <<Num(1000)>>

\* C20: the backoff after a transport failure on attempt index i < retries is
\* exactly 2^i seconds, where i counts every earlier attempt of the call,
\* those that ended in a retried 429 included.
C20_BackoffCountsEveryAttempt ==
    (pc = "delay" /\ lastAttempt.kind \in TransportKinds)
    => /\ attempt = Len(attempts) - 1
       /\ attempt < config.retries
       /\ pendingDelay = Num((2 ^ (Len(attempts) - 1)) * 1000)

\* a 429 on attempt 0, then a transport failure on attempt 1 followed by 2 s
C20_Witness ==
    /\ pc = "delay"
    /\ Len(attempts) = 2
    /\ attempts[1].kind = "429"
    /\ attempts[2].kind \in TransportKinds
    /\ pendingDelay = Num(2000)

\* the WardenAPIError a call running alone throws for a response that is not ok
ErrorAlone(response) ==
    LET data == safeJsonParse(response) IN
    WardenAPIError(IF data # null /\ TruthyStr(data.error)
                   THEN Get(data.error) ELSE HttpMessage(response.status),
                   response.status, data, extractRateLimit(response))

\* how makeRequest ends, running alone, on a last attempt a
ResultAlone(a) ==
    CASE a.kind = "network" -> Thrown(PlainError("TypeError"))
      [] a.kind = "timeout" -> Thrown(PlainError("TimeoutError"))
      [] OTHER ->
           IF ~ok(a.response) THEN Thrown(ErrorAlone(a.response))
           ELSE IF JsonDecodes(a.response.body)
           THEN Returned(Merged(JsonValue(a.response.body), extractRateLimit(a.response)))
           ELSE Thrown(PlainError("SyntaxError"))

\* the sleep a call running alone takes after attempt index i ended as a
SleepAlone(a, i) ==
    IF a.kind = "429"
    THEN Times(parseInt(IF TruthyChars(a.retryAfter) THEN Get(a.retryAfter) ELSE <<"1">>),
               1000)
    ELSE Num((2 ^ i) * 1000)

\* the attempts of the history h that reached the catch block
Caught(h) ==
    {i \in 1..Len(h) : \/ h[i].kind \in {"network", "timeout", "decode", "error"}
                       \/ h[i].kind = "429" /\ i = config.retries + 1}

\* lastError of a call running alone with the locals l
LastErrorAlone(l) ==
    IF Caught(l.attempts) = {} THEN undefined
    ELSE LET m == CHOOSE i \in Caught(l.attempts) : \A j \in Caught(l.attempts) : j <= i
             kind == l.attempts[m].kind
         IN CASE kind = "network" -> Some(PlainError("TypeError"))
              [] kind = "timeout" -> Some(PlainError("TimeoutError"))
              [] kind = "decode" -> Some(PlainError("SyntaxError"))
              [] OTHER -> Some(ErrorAlone(l.lastAttempt.response))

\* the locals l are those of a call that ran alone on its own attempts
AsAlone(l) ==
    LET n == Len(l.attempts) IN
    /\ l.pc = "idle" => l = IdleLocals
    /\ l.attempt = IF l.pc \in {"delay", "done"} THEN n - 1 ELSE n
    /\ l.attempt <= config.retries
    /\ Len(l.requests) = n
    /\ Len(l.sleeps) = IF l.pc = "done" THEN n - 1 ELSE n
    /\ \A i \in 1..Len(l.sleeps) : l.sleeps[i] = SleepAlone(l.attempts[i], i - 1)
    /\ l.lastError = LastErrorAlone(l)
    /\ l.pc = "delay" => l.attempt < config.retries /\ l.pendingDelay = l.sleeps[n]
    /\ IF l.pc = "done"
       THEN /\ l.mrResult = ResultAlone(l.lastAttempt)
            /\ l.opResult = Outcome(l.op, l.mrResult)
            /\ \/ l.attempts[n].kind \in {"ok", "error"}
               \/ l.attempt = config.retries
       ELSE l.mrResult = Pending /\ l.opResult = Pending

\* C17: of two calls on one client interleaved at every await, each has the
\* attempt counter, last error, sleeps and outcome that its own responses and
\* the client's config give a call running alone.
C17_ConcurrentCallsAreIndependent ==
    client = "ready" => AsAlone(Locals) /\ AsAlone(other)

\* one call sleeps after a 429 on its first attempt while the other, started
\* meanwhile and answered 404, has ended on its second attempt
C17_Witness ==
    /\ pc = "delay"
    /\ op = "checkServerById"
    /\ attempt = 0
    /\ attempts[1].kind = "429"
    /\ other.pc = "done"
    /\ other.op = "checkServers"
    /\ other.attempt = 1
    /\ other.attempts[1].kind = "network"
    /\ other.mrResult.kind = "throw"
    /\ other.mrResult.error.statusCode = Some(404)
    /\ other.opResult = other.mrResult

\* C21: provided each attempt's fetch ends and each sleep ends, a call that has
\* started eventually returns a result or throws, whatever retries the client
\* was built with and however its attempts end.
C21_EveryCallTerminates ==
    (pc \in {"fetch", "delay"}) ~> (Done /\ mrResult.kind \in {"return", "throw"})

\* a call on a client built with retries 0 that ended after a body that did
\* not decode and then three rate-limited attempts
C21_Witness ==
    /\ Done
    /\ cfgIn.retries = Some(0)
    /\ Len(attempts) = 4
    /\ attempts[1].kind = "decode"
    /\ \A i \in 2..4 : attempts[i].kind = "429"
    /\ mrResult.kind = "throw"

\* the call ended in the body of the loop, on its last attempt
EndedInLoopBody ==
    /\ lastAttempt # NoAttempt
    /\ mrResult = ResultAlone(lastAttempt)
    /\ mrResult.kind = "return" => GotResponse /\ ok(LastResponse)
    /\ mrResult.kind = "throw" => lastError = Some(mrResult.error)

\* C22: whatever retries >= 0 the client was built with, a call ends inside the
\* attempts loop, returning on a 2xx response or throwing from the loop body;
\* the throw of lastError after the loop is never reached, so the caller gets
\* no undefined or stale error from it.
C22_ThrowAfterLoopIsUnreachable ==
    /\ [](Done => EndedInLoopBody /\ mrResult # Thrown(ThrownUndefined))
    /\ [][pc = "delay" => pc' = "fetch" /\ attempt' <= config.retries]_vars

\* the budget of one retry ran out on a 429 that followed a network error
C22_Witness ==
    /\ Done
    /\ cfgIn.retries = Some(1)
    /\ Len(attempts) = 2
    /\ attempts[1].kind = "network"
    /\ attempts[2].kind = "429"
    /\ attempt = config.retries
    /\ mrResult.kind = "throw"
    /\ mrResult.error.statusCode = Some(429)

\* the rate-limit info a response with the X-RateLimit headers rate and the
\* Retry-After header retryAfter carries
RateLimitOfHeaders(rate, retryAfter) ==
    extractRateLimit(Response(200, rate, retryAfter, "{}"))

\* the responses of earlier, retried attempts whose rate-limit info differs from
\* that of the last response
EarlierWithOtherRateLimit ==
    {i \in 1..(Len(attempts) - 1) :
        /\ attempts[i].kind \notin TransportKinds
        /\ RateLimitOfHeaders(attempts[i].rate, attempts[i].retryAfter)
             # extractRateLimit(LastResponse)}

\* C23: the rate-limit info of a call's outcome, a returned result or a thrown
\* WardenAPIError, is the one extracted from the last response the call
\* received, never that of a response of an earlier, retried attempt.
C23_OutcomeRateLimitIsOfLastResponse ==
    EndedWithResponse
    => /\ OutcomeRateLimit = extractRateLimit(LastResponse)
       /\ \A i \in EarlierWithOtherRateLimit :
             OutcomeRateLimit # RateLimitOfHeaders(attempts[i].rate, attempts[i].retryAfter)

\* a 429 with rate-limit headers was retried and the 2xx response that ended the
\* call had none: the result carries no rate-limit info
C23_Witness ==
    /\ EndedWithResponse
    /\ Len(attempts) = 2
    /\ attempts[1].kind = "429"
    /\ attempts[1].rate = FullRateHeaders
    /\ LastResponse.status = 200
    /\ LastResponse.headers.limit = undefined
    /\ mrResult.kind = "return"
    /\ mrResult.value.rateLimit = undefined

\* the call ended on a response that is not 2xx
EndedWithErrorResponse == Done /\ GotResponse /\ LastResponse.status \notin 200..299

\* the message the claim gives the WardenAPIError of a response
MessageOf(response) ==
    IF response.body = "{error:'quota',id:'7'}" THEN "quota"
    ELSE CASE response.status = 404 -> "HTTP 404: Not Found"
           [] response.status = 429 -> "HTTP 429: Too Many Requests"
           [] OTHER -> "HTTP 500: Internal Server Error"

\* C24: for a non-2xx response that is not retried the call throws a
\* WardenAPIError whose message is the error field of the decoded body when
\* the body decodes and that field is nonempty, and "HTTP <status>:
\* <statusText>" otherwise; a body that does not decode gives the error the
\* body null, never the decoding exception.
C24_ErrorMessageFromBodyOrStatus ==
    EndedWithErrorResponse
    => /\ mrResult.kind = "throw"
       /\ mrResult.error.name = "WardenAPIError"
       /\ mrResult.error.statusCode = Some(LastResponse.status)
       /\ mrResult.error.message = MessageOf(LastResponse)
       /\ LastResponse.body = "<html>" => mrResult.error.responseData = Some(null)
       /\ LastResponse.body # "<html>" => mrResult.error.responseData # Some(null)

\* a 500 whose body is not JSON
C24_Witness ==
    /\ EndedWithErrorResponse
    /\ LastResponse.status = 500
    /\ LastResponse.body = "<html>"
    /\ mrResult.error.message = "HTTP 500: Internal Server Error"
    /\ mrResult.error.responseData = Some(null)

\* the method and path the claim gives each operation
PostsTo(path) == [method |-> "POST", path |-> path, hasBody |-> TRUE]
Target(name) ==
    CASE name \in {"checkServerById", "checkServerByName"} -> PostsTo("/server")
      [] name = "checkServers" -> PostsTo("/servers")
      [] name \in {"checkUserById", "isUserFlagged"} -> PostsTo("/user")
      [] OTHER -> [method |-> "GET", path |-> "/server/123", hasBody |-> FALSE]

\* C25: every attempt of one call sends the same request: the URL made of the
\* base URL and the operation's path, the operation's method and body (none
\* for the GET of getServerInfo and isServerFlagged) and the configured API
\* key in x-api-key; a retry changes none of them.
C25_EveryAttemptSendsSameRequest ==
    \A i \in 1..Len(requests) :
        /\ requests[i] = requests[1]
        /\ requests[i].url = <<config.baseUrl, Target(op).path>>
        /\ requests[i].method = Target(op).method
        /\ IsDefined(requests[i].body) = Target(op).hasBody
        /\ requests[i].apiKey = config.apiKey
        /\ requests[i].apiKey = Get(cfgIn.apiKey)

\* isUserFlagged sent its POST three times to an overridden base URL
C25_Witness ==
    /\ Done
    /\ op = "isUserFlagged"
    /\ Len(requests) = 3
    /\ requests[3].url = <<"http://localhost/api", "/user">>
    /\ requests[3].method = "POST"
    /\ attempts[1].kind = "429"
    /\ attempts[2].kind = "network"

====
